---- MODULE Spec2Model ----
(***************************************************************************)
(* hana-salon backend: the technician availability checks of the           *)
(* technicians controller and the booking mutations of the bookings        *)
(* controller, over the Booking collection (specification Spec), and the   *)
(* calendar sync transitions of BookingCalendarIntegration over booking    *)
(* documents held in memory (specification SpecSync), and the projection   *)
(* of a booking onto a calendar event by GoogleCalendarService             *)
(* (specification SpecProjector).                                          *)
(*                                                                         *)
(* Representation.  A calendar date is a day number; a wall-clock string   *)
(* "HH:MM" is the pair <<HH, MM>>; a JavaScript Date is a number of        *)
(* minutes (day * 24 * 60 + minute of the day).  An ObjectId is the        *)
(* string of its canonical form; a booking's _id is its position in the    *)
(* collection.  A request field that is absent (undefined) is the falsy    *)
(* value of its type: "" for an id, NoDate for a date, NoTime for a time;  *)
(* duration and technicianIds carry their JavaScript type in .kind.        *)
(* Booking fields no handler modelled here reads (customer, price,         *)
(* payment, notes, rating) are left out.                                   *)
(***************************************************************************)
EXTENDS Integers, Sequences, FiniteSets, TLC

VARIABLES
    bookings,      \* the Booking collection, in insertion order
    request,       \* params and body of the request handled last
    response,      \* what the handler sent back
    storeQueries,  \* Booking.find calls issued by the handler that ran last
    storeError,    \* whether a store call of that handler threw
    docs,          \* the IBooking documents handed to BookingCalendarIntegration
    factory,       \* CalendarServiceFactory's static fields
    now,           \* the system clock read by new Date()
    trace,         \* the transitions the integration call that ran last went
                   \* through, with the calendar call each one issued
    result,        \* what that integration call gave back to its caller
    history,       \* per document, the last calendar create or delete that
                   \* succeeded
    calendar,      \* the live events of the external calendar, each with the
                   \* document it was created for
    eventRequest,  \* the arguments of the bookingToCalendarEvent call made last
    eventData,     \* the CalendarEventData it built
    clients        \* per API client that books an appointment: the slot it
                   \* asks for, how far it got, and what it was answered

bookingVars == <<bookings, request, response, storeQueries, storeError>>
syncVars == <<docs, factory, now, trace, result, history, calendar>>
projectorVars == <<eventRequest, eventData>>
clientVars == <<clients>>
vars == <<bookings, request, response, storeQueries, storeError,
          docs, factory, now, trace, result, history, calendar,
          eventRequest, eventData, clients>>

----------------------------------------------------------------------------
(* Bounds and input domains *)

MaxBookings == 2

TechnicianIds == {"t1", "t2"}

\* technicians known to Technician.findById and active
ActiveTechnicians == TechnicianIds

\* customers known to Customer.findById and active
ActiveCustomers == {"c1"}

NoDate == 0
PastDays == {-1}

NoTime == <<>>

Undefined == [kind |-> "undefined", num |-> 0]
Num(n) == [kind |-> "number", num |-> n]

NoIds == [kind |-> "undefined", arr |-> <<>>]
NotArray == [kind |-> "string", arr |-> <<>>]
Arr(s) == [kind |-> "array", arr |-> s]

Slot(date, startTime, duration) ==
    [date |-> date, startTime |-> startTime, duration |-> duration]

\* date, start time and duration of the well-formed availability requests:
\* 30 minutes at 08:30, 09:30 and 10:00 of day 1, 30 minutes of day 2, and a
\* negative duration
RequestSlots ==
    {Slot(1, <<8, 30>>, Num(30)), Slot(1, <<9, 30>>, Num(30)),
     Slot(1, <<10, 0>>, Num(30)), Slot(2, <<9, 30>>, Num(30)),
     Slot(1, <<10, 0>>, Num(-30))}

\* the requests with a required field missing or falsy
BadSlots ==
    {Slot(NoDate, <<9, 30>>, Num(30)), Slot(1, NoTime, Num(30)),
     Slot(1, <<9, 30>>, Undefined), Slot(1, <<9, 30>>, Num(0))}

CheckOneRequests ==
    {[technicianId |-> t, slot |-> sl] : t \in TechnicianIds, sl \in RequestSlots}
    \cup {[technicianId |-> "t1", slot |-> sl] : sl \in BadSlots}
    \cup {[technicianId |-> "", slot |-> Slot(1, <<9, 30>>, Num(30))]}

BatchRequests ==
    {[technicianIds |-> ts, slot |-> sl] :
        ts \in {Arr(<<"t1">>), Arr(<<"t1", "t2">>), Arr(<<"t2", "t1">>), Arr(<<"t2", "t2">>)},
        sl \in RequestSlots}
    \cup {[technicianIds |-> Arr(<<"t1", "t2">>), slot |-> sl] : sl \in BadSlots}
    \cup {[technicianIds |-> ts, slot |-> Slot(1, <<9, 30>>, Num(30))] :
            ts \in {NoIds, NotArray, Arr(<<>>)}}

\* Service documents: duration_minutes of each service id
ServiceCatalog == [s30 |-> 30, s60 |-> 60]
ServiceIds == DOMAIN ServiceCatalog

Svc(s, t) == [serviceId |-> s, technicianId |-> t, duration |-> 0]

Create(customerId, services, appointmentDate, startTime, endTime) ==
    [customerId |-> customerId, services |-> services,
     appointmentDate |-> appointmentDate, startTime |-> startTime, endTime |-> endTime]

\* bodies of create-booking requests: three that are accepted, then one for
\* each way createBooking rejects
CreateRequests ==
    {Create("c1", <<Svc("s60", "t1")>>, 1, <<9, 0>>, <<10, 0>>),
     Create("c1", <<Svc("s30", "t1"), Svc("s30", "t2")>>, 1, <<9, 0>>, <<10, 0>>),
     Create("c1", <<Svc("s30", "t1")>>, 1, <<10, 0>>, <<10, 30>>),
     Create("", <<Svc("s60", "t1")>>, 1, <<9, 0>>, <<10, 0>>),
     Create("cx", <<Svc("s60", "t1")>>, 1, <<9, 0>>, <<10, 0>>),
     Create("c1", <<>>, 1, <<9, 0>>, <<10, 0>>),
     Create("c1", <<Svc("s60", "t1")>>, NoDate, <<9, 0>>, <<10, 0>>),
     Create("c1", <<Svc("s60", "t1")>>, -1, <<9, 0>>, <<10, 0>>),
     Create("c1", <<Svc("s60", "t1")>>, 1, NoTime, <<10, 0>>),
     Create("c1", <<Svc("s60", "t1")>>, 1, <<9, 0>>, NoTime),
     Create("c1", <<Svc("s30", "tx")>>, 1, <<10, 0>>, <<10, 30>>),
     Create("c1", <<Svc("s99", "t1")>>, 1, <<10, 0>>, <<10, 30>>),
     Create("c1", <<Svc("s60", "t1")>>, 1, <<10, 0>>, <<9, 0>>),
     Create("c1", <<Svc("s60", "t1")>>, 1, <<10, 0>>, <<10, 30>>),
     Create("c1", <<[Svc("s30", "t1") EXCEPT !.duration = 10]>>, 1, <<9, 0>>, <<9, 10>>)}

\* bodies of update-booking requests
UpdateRequests == {[status |-> "confirmed"], [status |-> "pending"]}

\* bodies of update-booking requests that move or resize the appointment
\* (the last one fails the schema's minimum of totalDuration)
TimeUpdateRequests ==
    {[endTime |-> <<8, 0>>],
     [startTime |-> <<10, 0>>],
     [startTime |-> <<9, 30>>, endTime |-> <<10, 30>>],
     [startTime |-> <<9, 0>>, endTime |-> <<10, 0>>, totalDuration |-> 60],
     [totalDuration |-> 120],
     [totalDuration |-> 10]}

\* bodies of create-booking requests: an hour, half an hour, and one whose
\* services take 60 minutes in a span of 30
TimeCreateRequests ==
    {Create("c1", <<Svc("s60", "t1")>>, 1, <<9, 0>>, <<10, 0>>),
     Create("c1", <<Svc("s30", "t1")>>, 1, <<10, 0>>, <<10, 30>>),
     Create("c1", <<Svc("s60", "t1")>>, 1, <<10, 0>>, <<10, 30>>)}

BookingStatuses ==
    {"initial", "confirmed", "in_progress", "completed", "cancelled", "no_show"}

----------------------------------------------------------------------------
(* Dates and times *)

MinutesPerDay == 24 * 60

\* startTime.split(':').map(Number), then setHours(hours, minutes, 0, 0)
\* on a copy of the request's date
SetHours(date, time) == date * MinutesPerDay + time[1] * 60 + time[2]

\* endDateTime.setMinutes(endDateTime.getMinutes() + duration)
AddMinutes(dateTime, duration) == dateTime + duration

\* new Date(`${booking.appointmentDate.toDateString()} ${booking.startTime}`)
BookingStart(b) == b.appointmentDate * MinutesPerDay + b.startTime[1] * 60 + b.startTime[2]

\* new Date(`${booking.appointmentDate.toDateString()} ${booking.endTime}`)
BookingEnd(b) == b.appointmentDate * MinutesPerDay + b.endTime[1] * 60 + b.endTime[2]

\* variant: the comparison with the booking's end admits equality
TimesOverlapClosed(startDateTime, endDateTime, bookingStart, bookingEnd) ==
    (startDateTime <= bookingEnd) /\ (endDateTime > bookingStart)

\* variant: only the requested start is tested against the booking
TimesOverlapStartInside(startDateTime, endDateTime, bookingStart, bookingEnd) ==
    (bookingStart <= startDateTime) /\ (startDateTime < bookingEnd)

\* (startDateTime < bookingEnd) && (endDateTime > bookingStart)
TimesOverlap(startDateTime, endDateTime, bookingStart, bookingEnd) ==
    (startDateTime < bookingEnd) /\ (endDateTime > bookingStart)

----------------------------------------------------------------------------
(* The booking store *)

\* variant: the query selects every status but cancelled
QueriedStatusesNotCancelled == BookingStatuses \ {"cancelled"}

\* variant: the query has no status filter
QueriedStatusesAny == BookingStatuses

\* status: { $in: ['initial', 'confirmed', 'in_progress'] }
QueriedStatuses == {"initial", "confirmed", "in_progress"}

\* 'services.technicianId' matches one of ids
ServicesTouch(b, ids) ==
    \E k \in 1..Len(b.services) : b.services[k].technicianId \in ids

\* appointmentDate: { $gte: start of the day, $lt: 23:59:59.999 of the day }
OnDate(b, date) == b.appointmentDate = date

\* Booking.find({'services.technicianId', appointmentDate, status}): the
\* _ids of the matching documents, in collection order
FindBookings(store, ids, date) ==
    SelectSeq([i \in 1..Len(store) |-> i],
              LAMBDA i : /\ ServicesTouch(store[i], ids)
                         /\ OnDate(store[i], date)
                         /\ store[i].status \in QueriedStatuses)

----------------------------------------------------------------------------
(* Responses *)

NoResponse ==
    [op |-> "none", code |-> 0, available |-> FALSE, conflicts |-> <<>>,
     results |-> <<>>, bookingId |-> 0]

Reply(op, code) == [NoResponse EXCEPT !.op = op, !.code = code]

NoRequest ==
    [technicianId |-> "", technicianIds |-> NoIds, date |-> NoDate,
     startTime |-> NoTime, endTime |-> NoTime, duration |-> Undefined,
     services |-> <<>>, id |-> 0]

\* JavaScript truthiness of a duration value
TruthyDuration(d) == d.kind = "number" /\ d.num # 0

----------------------------------------------------------------------------
(* checkTechnicianAvailability *)

\* the loop over the query's result: the conflicting bookings, in order
ConflictDetails(store, found, startDateTime, endDateTime) ==
    LET hits == SelectSeq(found,
                   LAMBDA i : TimesOverlap(startDateTime, endDateTime,
                                           BookingStart(store[i]), BookingEnd(store[i])))
    IN  [k \in 1..Len(hits) |->
            [bookingId |-> hits[k],
             startTime |-> store[hits[k]].startTime,
             endTime |-> store[hits[k]].endTime,
             services |-> store[hits[k]].services]]

CheckOneAnswer(store, technicianId, date, startTime, duration) ==
    LET startDateTime == SetHours(date, startTime)
        endDateTime == AddMinutes(startDateTime, duration)
        conflicts == FindBookings(store, {technicianId}, date)
        conflictDetails == ConflictDetails(store, conflicts, startDateTime, endDateTime)
    IN  [Reply("checkOne", 200) EXCEPT
            !.available = (Len(conflictDetails) = 0),
            !.conflicts = conflictDetails]

\* !technicianId || !date || !startTime || !duration
MissingCheckOneField(technicianId, date, startTime, duration) ==
    technicianId = "" \/ date = NoDate \/ startTime = NoTime \/ ~TruthyDuration(duration)

\* the catch block: ResponseUtil.internalError
CheckOneFailed == Reply("checkOne", 500)

CheckTechnicianAvailability(technicianId, date, startTime, duration, storeOk) ==
    /\ request' = [NoRequest EXCEPT !.technicianId = technicianId, !.date = date,
                                    !.startTime = startTime, !.duration = duration]
    /\ IF MissingCheckOneField(technicianId, date, startTime, duration)
       THEN /\ response' = Reply("checkOne", 400)
            /\ storeQueries' = 0
            /\ storeError' = FALSE
       ELSE /\ storeQueries' = 1
            /\ storeError' = ~storeOk
            /\ response' = IF storeOk
                           THEN CheckOneAnswer(bookings, technicianId, date,
                                               startTime, duration.num)
                           ELSE CheckOneFailed
    /\ UNCHANGED bookings
    /\ UNCHANGED syncVars
    /\ UNCHANGED projectorVars

----------------------------------------------------------------------------
(* batchCheckTechnicianAvailability *)

\* variant: every booking of the query counts for every technician
TechnicianInvolvedAlways(b, technicianId) == TRUE

\* booking.services.some(service => service.technicianId.toString() === technicianId)
TechnicianInvolved(b, technicianId) ==
    \E k \in 1..Len(b.services) : b.services[k].technicianId = technicianId

\* the inner loop: some queried booking involves the technician and overlaps
HasConflict(store, found, technicianId, startDateTime, endDateTime) ==
    \E k \in 1..Len(found) :
        /\ TechnicianInvolved(store[found[k]], technicianId)
        /\ TimesOverlap(startDateTime, endDateTime,
                        BookingStart(store[found[k]]), BookingEnd(store[found[k]]))

\* variant: the results are built from the set of the ids, each id once and
\* in the order of the ids' names
BatchResultsById(store, found, technicianIds, startDateTime, endDateTime) ==
    LET ids == {technicianIds[k] : k \in 1..Len(technicianIds)}
        sorted == SelectSeq(<<"t1", "t2">>, LAMBDA t : t \in ids)
    IN  [k \in 1..Len(sorted) |->
            [technicianId |-> sorted[k],
             available |-> ~\E j \in 1..Len(found) :
                              /\ \E n \in 1..Len(store[found[j]].services) :
                                    store[found[j]].services[n].technicianId = sorted[k]
                              /\ TimesOverlap(startDateTime, endDateTime,
                                              BookingStart(store[found[j]]),
                                              BookingEnd(store[found[j]]))]]

\* the outer loop: one result pushed per element of technicianIds, in order
BatchResults(store, found, technicianIds, startDateTime, endDateTime) ==
    [k \in 1..Len(technicianIds) |->
        [technicianId |-> technicianIds[k],
         available |-> ~HasConflict(store, found, technicianIds[k],
                                    startDateTime, endDateTime)]]

\* the single Booking.find of the batch check
BatchFind(store, technicianIds, date) ==
    FindBookings(store, {technicianIds[k] : k \in 1..Len(technicianIds)}, date)

BatchAnswer(store, technicianIds, date, startTime, duration) ==
    LET startDateTime == SetHours(date, startTime)
        endDateTime == AddMinutes(startDateTime, duration)
        conflicts == BatchFind(store, technicianIds, date)
    IN  [Reply("batch", 200) EXCEPT
            !.results = BatchResults(store, conflicts, technicianIds,
                                     startDateTime, endDateTime)]

\* variant: the length of the array is not tested
MissingTechnicianIdsNoLength(technicianIds) == technicianIds.kind # "array"

\* !technicianIds || !Array.isArray(technicianIds) || technicianIds.length === 0
MissingTechnicianIds(technicianIds) ==
    technicianIds.kind # "array" \/ Len(technicianIds.arr) = 0

\* !date || !startTime || !duration
MissingBatchField(date, startTime, duration) ==
    date = NoDate \/ startTime = NoTime \/ ~TruthyDuration(duration)

\* variant: the catch block answers as a completed check
BatchFailedAnswersOk == Reply("batch", 200)

\* the catch block: ResponseUtil.internalError
BatchFailed == Reply("batch", 500)

BatchCheckTechnicianAvailability(technicianIds, date, startTime, duration, storeOk) ==
    /\ request' = [NoRequest EXCEPT !.technicianIds = technicianIds, !.date = date,
                                    !.startTime = startTime, !.duration = duration]
    /\ IF MissingTechnicianIds(technicianIds)
       THEN /\ response' = Reply("batch", 400)
            /\ storeQueries' = 0
            /\ storeError' = FALSE
       ELSE IF MissingBatchField(date, startTime, duration)
       THEN /\ response' = Reply("batch", 400)
            /\ storeQueries' = 0
            /\ storeError' = FALSE
       ELSE /\ storeQueries' = 1
            /\ storeError' = ~storeOk
            /\ response' = IF storeOk
                           THEN BatchAnswer(bookings, technicianIds.arr, date,
                                            startTime, duration.num)
                           ELSE BatchFailed
    /\ UNCHANGED bookings
    /\ UNCHANGED syncVars
    /\ UNCHANGED projectorVars
    /\ UNCHANGED clientVars

----------------------------------------------------------------------------
(* createBooking *)

DurationBuffer == 15
TotalDurationMin == 15
TotalDurationMax == 480
SaveTolerance == 5

\* hours * 60 + minutes of an "HH:MM" string
MinutesOfDay(time) == time[1] * 60 + time[2]

\* validateBookingInput: TRUE when the errors array stays empty.  The
\* HH:MM format and the field types are those of well-formed requests.
ValidBookingInput(customerId, services, appointmentDate, startTime, endTime) ==
    /\ customerId # ""
    /\ Len(services) > 0
    /\ appointmentDate # NoDate
    /\ startTime # NoTime
    /\ endTime # NoTime
    /\ appointmentDate \notin PastDays
    /\ \A k \in 1..Len(services) :
          /\ services[k].serviceId # ""
          /\ services[k].technicianId # ""
          /\ services[k].duration >= 0

\* validateServicesArray, isValid: every service exists and every
\* technician exists and is active (no modelled service requires a skill level)
ServicesValid(services) ==
    \A k \in 1..Len(services) :
        /\ services[k].serviceId \in ServiceIds
        /\ services[k].technicianId \in ActiveTechnicians

\* serviceData.duration || service.duration_minutes
ServiceDuration(serviceData) ==
    IF serviceData.duration # 0 THEN serviceData.duration
    ELSE ServiceCatalog[serviceData.serviceId]

\* validateServicesArray, validatedServices
ValidatedServices(services) ==
    [k \in 1..Len(services) |->
        [serviceId |-> services[k].serviceId,
         technicianId |-> services[k].technicianId,
         duration |-> ServiceDuration(services[k])]]

RECURSIVE SumDurations(_)
\* validateServicesArray, totalDuration
SumDurations(services) ==
    IF Len(services) = 0 THEN 0
    ELSE ServiceDuration(Head(services)) + SumDurations(Tail(services))

Abs(n) == IF n < 0 THEN -n ELSE n

\* schema validators of Booking that a document built by a handler can fail
SchemaValid(doc) ==
    /\ Len(doc.services) > 0
    /\ \A k \in 1..Len(doc.services) : doc.services[k].duration >= 1
    /\ doc.appointmentDate \notin PastDays
    /\ doc.status \in BookingStatuses
    /\ doc.totalDuration >= TotalDurationMin
    /\ doc.totalDuration <= TotalDurationMax

\* BookingSchema.pre('save'): the time logic hook lets the document through
PreSaveTimeLogic(doc) ==
    /\ MinutesOfDay(doc.endTime) > MinutesOfDay(doc.startTime)
    /\ Abs(doc.totalDuration - (MinutesOfDay(doc.endTime) - MinutesOfDay(doc.startTime)))
          <= SaveTolerance

\* bookingData of createBooking with the schema defaults filled in
BookingData(services, appointmentDate, startTime, endTime, calculatedDuration) ==
    [services |-> ValidatedServices(services),
     appointmentDate |-> appointmentDate,
     startTime |-> startTime,
     endTime |-> endTime,
     status |-> "initial",
     totalDuration |-> calculatedDuration,
     calendarEventId |-> "",
     calendarSyncStatus |-> "pending"]

\* variant: a unique constraint refuses a second active booking of a
\* technician in an overlapping slot
StoreAcceptsUniqueSlot(store, doc) ==
    \A i \in 1..Len(store) :
        ~(/\ store[i].status \in QueriedStatuses
          /\ store[i].appointmentDate = doc.appointmentDate
          /\ \E k \in 1..Len(doc.services) :
                ServicesTouch(store[i], {doc.services[k].technicianId})
          /\ BookingStart(store[i]) < BookingEnd(doc)
          /\ BookingStart(doc) < BookingEnd(store[i]))

\* BookingSchema.index(...): no index is unique and createBooking takes no
\* lock, so the insert is never refused for what the collection holds
StoreAccepts(store, doc) == TRUE

CreateBooking(customerId, services, appointmentDate, startTime, endTime, storeOk) ==
    LET calculatedDuration == MinutesOfDay(endTime) - MinutesOfDay(startTime)
        doc == BookingData(services, appointmentDate, startTime, endTime, calculatedDuration)
    IN
    /\ Len(bookings) < MaxBookings
    /\ request' = [NoRequest EXCEPT !.services = services, !.date = appointmentDate,
                                    !.startTime = startTime, !.endTime = endTime]
    /\ storeQueries' = 0
    /\ IF ~ValidBookingInput(customerId, services, appointmentDate, startTime, endTime)
       THEN response' = Reply("create", 400) /\ UNCHANGED bookings
       ELSE IF customerId \notin ActiveCustomers
       THEN response' = Reply("create", 400) /\ UNCHANGED bookings
       ELSE IF ~ServicesValid(services)
       THEN response' = Reply("create", 400) /\ UNCHANGED bookings
       ELSE IF calculatedDuration <= 0
       THEN response' = Reply("create", 400) /\ UNCHANGED bookings
       ELSE IF Abs(calculatedDuration - SumDurations(services)) > DurationBuffer
       THEN response' = Reply("create", 400) /\ UNCHANGED bookings
       ELSE IF ~SchemaValid(doc)
       THEN response' = Reply("create", 400) /\ UNCHANGED bookings
       ELSE IF ~PreSaveTimeLogic(doc) \/ ~storeOk \/ ~StoreAccepts(bookings, doc)
       THEN response' = Reply("create", 500) /\ UNCHANGED bookings
       ELSE /\ bookings' = Append(bookings, doc)
            /\ response' = [Reply("create", 201) EXCEPT !.bookingId = Len(bookings) + 1]
    /\ storeError' = (response'.code = 500 /\ ~storeOk)
    /\ UNCHANGED syncVars
    /\ UNCHANGED projectorVars

----------------------------------------------------------------------------
(* cancelBooking, completeBooking, updateBooking *)

\* Booking.findByIdAndUpdate(id, {status: 'cancelled', ...})
CancelBooking(id, storeOk) ==
    /\ request' = [NoRequest EXCEPT !.id = id]
    /\ storeQueries' = 0
    /\ IF ~storeOk
       THEN response' = Reply("cancel", 500) /\ UNCHANGED bookings
       ELSE IF id \notin 1..Len(bookings)
       THEN response' = Reply("cancel", 404) /\ UNCHANGED bookings
       ELSE /\ bookings' = [bookings EXCEPT ![id].status = "cancelled"]
            /\ response' = [Reply("cancel", 200) EXCEPT !.bookingId = id]
    /\ storeError' = (response'.code = 500)
    /\ UNCHANGED syncVars
    /\ UNCHANGED projectorVars
    /\ UNCHANGED clientVars

\* Booking.findByIdAndUpdate(id, {status: 'completed', ...})
CompleteBooking(id, storeOk) ==
    /\ request' = [NoRequest EXCEPT !.id = id]
    /\ storeQueries' = 0
    /\ IF ~storeOk
       THEN response' = Reply("complete", 500) /\ UNCHANGED bookings
       ELSE IF id \notin 1..Len(bookings)
       THEN response' = Reply("complete", 404) /\ UNCHANGED bookings
       ELSE /\ bookings' = [bookings EXCEPT ![id].status = "completed"]
            /\ response' = [Reply("complete", 200) EXCEPT !.bookingId = id]
    /\ storeError' = (response'.code = 500)
    /\ UNCHANGED syncVars
    /\ UNCHANGED projectorVars
    /\ UNCHANGED clientVars

\* runValidators: the schema validators of the paths that updateData sets
\* (the times of a well-formed body match HH:MM)
UpdateValid(updateData) ==
    /\ "status" \in DOMAIN updateData => updateData.status \in BookingStatuses
    /\ "totalDuration" \in DOMAIN updateData
          => /\ updateData.totalDuration >= TotalDurationMin
             /\ updateData.totalDuration <= TotalDurationMax

\* the document after findByIdAndUpdate has set the paths of updateData;
\* no pre('save') hook runs on this path
Updated(doc, updateData) ==
    [f \in DOMAIN doc |-> IF f \in DOMAIN updateData THEN updateData[f] ELSE doc[f]]

\* updateBooking: runValidators checks the paths of the body, then
\* Booking.findByIdAndUpdate(id, updateData)
UpdateBooking(id, updateData, storeOk) ==
    /\ request' = [NoRequest EXCEPT !.id = id]
    /\ storeQueries' = 0
    /\ IF ~UpdateValid(updateData)
       THEN response' = Reply("update", 400) /\ UNCHANGED bookings
       ELSE IF ~storeOk
       THEN response' = Reply("update", 500) /\ UNCHANGED bookings
       ELSE IF id \notin 1..Len(bookings)
       THEN response' = Reply("update", 404) /\ UNCHANGED bookings
       ELSE /\ bookings' = [bookings EXCEPT ![id] = Updated(@, updateData)]
            /\ response' = [Reply("update", 200) EXCEPT !.bookingId = id]
    /\ storeError' = (response'.code = 500)
    /\ UNCHANGED syncVars
    /\ UNCHANGED projectorVars
    /\ UNCHANGED clientVars

----------------------------------------------------------------------------
(* Clients of the API.  A client asks whether the technician is free in    *)
(* its slot (POST /:id/check-availability) and, once answered available,    *)
(* books the slot (POST /api/bookings).  Each request is handled in one     *)
(* step; requests of different clients interleave.                          *)

ClientIds == {"a", "b"}
ClientTechnician == "t1"
ClientService == "s60"
ClientStartTimes == {<<9, 0>>, <<9, 30>>, <<10, 30>>}

NewClient == [pc |-> "new", startTime |-> NoTime, bookingId |-> 0]

\* the client's slot: an hour of ClientService with ClientTechnician
ClientEnd(startTime) == <<startTime[1] + 1, startTime[2]>>

ClientChoosesSlot(c, startTime) ==
    /\ clients[c].pc = "new"
    /\ clients' = [clients EXCEPT ![c] = [@ EXCEPT !.pc = "chosen", !.startTime = startTime]]
    /\ UNCHANGED bookingVars
    /\ UNCHANGED syncVars
    /\ UNCHANGED projectorVars

\* the client's availability request is handled; the client goes on when
\* it reads available: true, and asks again after an error
ClientChecks(c, storeOk) ==
    /\ clients[c].pc = "chosen"
    /\ CheckTechnicianAvailability(ClientTechnician, 1, clients[c].startTime,
                                   Num(ServiceCatalog[ClientService]), storeOk)
    /\ clients' = [clients EXCEPT ![c].pc =
                      IF response'.code = 200 /\ response'.available
                      THEN "available"
                      ELSE IF response'.code = 200 THEN "taken" ELSE @]

\* the client's create request is handled; the client holds the booking
\* when it is answered 201
ClientBooks(c, storeOk) ==
    /\ clients[c].pc = "available"
    /\ CreateBooking("c1", <<Svc(ClientService, ClientTechnician)>>, 1,
                     clients[c].startTime, ClientEnd(clients[c].startTime), storeOk)
    /\ clients' = [clients EXCEPT ![c] =
                      IF response'.code = 201
                      THEN [@ EXCEPT !.pc = "booked", !.bookingId = response'.bookingId]
                      ELSE IF storeError' THEN @
                      ELSE [@ EXCEPT !.pc = "refused"]]

----------------------------------------------------------------------------
(* BookingCalendarIntegration and CalendarServiceFactory.                   *)
(*                                                                          *)
(* Representation.  A document is the calendar part of an IBooking held by  *)
(* the caller: the integration writes its fields and never saves it; its    *)
(* _id is its index.  An absent calendarEventId is "", an absent            *)
(* calendarLastSyncAt is NoSyncAt.  A Date is a tick of the clock; the      *)
(* awaited calendar call takes 0 or 1 ticks.  The calendar call of          *)
(* GoogleCalendarService ends in one of three ways for the integration:     *)
(* "ok" (an event id, or true), "fail" (null, or false), "throws" (the      *)
(* awaited promise rejects).  Over a network that loses answers it has two  *)
(* more ends: "lost" (the calendar applied the request, the service got no  *)
(* answer it could use and returned null or false) and "hangs" (no answer   *)
(* ever comes: the calls set no timeout, so the promise never settles).     *)
(* The external calendar is the set of its live events.                     *)

DocIds == {1, 2}
EventIds == {"e1", "e2"}
MaxClock == 2
Elapsed == {0, 1}
Outcomes == {"ok", "fail", "throws"}
NetworkOutcomes == Outcomes \cup {"lost", "hangs"}

NoEventId == ""
NoSyncAt == 0

CalendarSyncStatuses == {"pending", "synced", "failed", "disabled"}

\* new Booking(data): calendarSyncStatus defaults to 'pending'
NewBooking ==
    [calendarEventId |-> NoEventId, calendarSyncStatus |-> "pending",
     calendarLastSyncAt |-> NoSyncAt]

\* private static instance = null; private static initialized = false
FactoryReset == [initialized |-> FALSE, instance |-> FALSE]

\* getInstance(): initialize() runs once; it leaves an instance when the
\* calendar configuration is there and the service could be built
GetInstance(f, enabled) ==
    IF f.initialized THEN f ELSE [initialized |-> TRUE, instance |-> enabled]

\* the configuration is read by initialize() only: once the factory is
\* initialized, `enabled` is what it found then
Configured(f, enabled) == f.initialized => enabled = f.instance

NoResult ==
    [op |-> "none", doc |-> 0, returned |-> "none", success |-> FALSE,
     eventId |-> NoEventId, startedAt |-> NoSyncAt]

\* a resolved { success, eventId? }
Resolved(success, eventId) == [returned |-> "value", success |-> success, eventId |-> eventId]

\* the promise rejects: the exception reaches the caller
Rejected == [returned |-> "exception", success |-> FALSE, eventId |-> NoEventId]

\* what a transition gives back: the document as it leaves it, the calendar
\* call it issued ("none" when it issued none), the event id that call was
\* about (the one a create returned, the one an update or delete named),
\* how the call ended and what the transition returns
Step(method, booking, call, eventId, outcome, ret) ==
    [method |-> method, booking |-> booking, call |-> call, eventId |-> eventId,
     outcome |-> outcome, ret |-> ret]

\* variant: the catch block lets the exception go on to the caller
CatchRethrows(method, booking, call, eventId) ==
    Step(method, booking, call, eventId, "throws", Rejected)
\* variant: the catch block leaves calendarSyncStatus as it was
CatchKeepsStatus(method, booking, call, eventId) ==
    Step(method, booking, call, eventId, "throws", Resolved(FALSE, NoEventId))
\* catch (error) { log; booking.calendarSyncStatus = 'failed';
\*                 return { success: false, error } }
Catch(method, booking, call, eventId) ==
    Step(method, [booking EXCEPT !.calendarSyncStatus = "failed"],
         call, eventId, "throws", Resolved(FALSE, NoEventId))

\* variant: a created event leaves calendarLastSyncAt as it was
CreateTransitionNoTimestamp(booking, service, outcome, eventId, at) ==
    IF ~service
    THEN Step("createCalendarEvent",
              [booking EXCEPT !.calendarSyncStatus = "disabled"],
              "none", NoEventId, "none", Resolved(TRUE, NoEventId))
    ELSE IF outcome = "ok"
    THEN Step("createCalendarEvent",
              [booking EXCEPT !.calendarEventId = eventId,
                              !.calendarSyncStatus = "synced"],
              "create", eventId, outcome, Resolved(TRUE, eventId))
    ELSE IF outcome = "fail"
    THEN Step("createCalendarEvent",
              [booking EXCEPT !.calendarSyncStatus = "failed"],
              "create", NoEventId, outcome, Resolved(FALSE, NoEventId))
    ELSE Catch("createCalendarEvent", booking, "create", NoEventId)
\* createCalendarEvent
CreateTransition(booking, service, outcome, eventId, at) ==
    IF ~service
    THEN Step("createCalendarEvent",
              [booking EXCEPT !.calendarSyncStatus = "disabled"],
              "none", NoEventId, "none", Resolved(TRUE, NoEventId))
    ELSE IF outcome = "ok"
    THEN Step("createCalendarEvent",
              [booking EXCEPT !.calendarEventId = eventId,
                              !.calendarSyncStatus = "synced",
                              !.calendarLastSyncAt = at],
              "create", eventId, outcome, Resolved(TRUE, eventId))
    ELSE IF outcome = "fail"
    THEN Step("createCalendarEvent",
              [booking EXCEPT !.calendarSyncStatus = "failed"],
              "create", NoEventId, outcome, Resolved(FALSE, NoEventId))
    ELSE Catch("createCalendarEvent", booking, "create", NoEventId)

\* variant: a failed update stamps calendarLastSyncAt
UpdateTransitionStampsFailure(booking, service, outcome, at) ==
    IF ~service \/ booking.calendarEventId = NoEventId
    THEN Step("updateCalendarEvent",
              [booking EXCEPT !.calendarSyncStatus =
                   IF booking.calendarEventId # NoEventId THEN "failed" ELSE "disabled"],
              "none", NoEventId, "none", Resolved(TRUE, NoEventId))
    ELSE IF outcome = "ok"
    THEN Step("updateCalendarEvent",
              [booking EXCEPT !.calendarSyncStatus = "synced",
                              !.calendarLastSyncAt = at],
              "update", booking.calendarEventId, outcome, Resolved(TRUE, NoEventId))
    ELSE Step("updateCalendarEvent",
              [booking EXCEPT !.calendarSyncStatus = "failed",
                              !.calendarLastSyncAt = at],
              "update", booking.calendarEventId, outcome, Resolved(FALSE, NoEventId))
\* variant: a failed update drops the booking's event id
UpdateTransitionClearsId(booking, service, outcome, at) ==
    IF ~service \/ booking.calendarEventId = NoEventId
    THEN Step("updateCalendarEvent",
              [booking EXCEPT !.calendarSyncStatus =
                   IF booking.calendarEventId # NoEventId THEN "failed" ELSE "disabled"],
              "none", NoEventId, "none", Resolved(TRUE, NoEventId))
    ELSE IF outcome = "ok"
    THEN Step("updateCalendarEvent",
              [booking EXCEPT !.calendarSyncStatus = "synced",
                              !.calendarLastSyncAt = at],
              "update", booking.calendarEventId, outcome, Resolved(TRUE, NoEventId))
    ELSE Step("updateCalendarEvent",
              [booking EXCEPT !.calendarSyncStatus = "failed",
                              !.calendarEventId = NoEventId],
              "update", booking.calendarEventId, outcome, Resolved(FALSE, NoEventId))
\* updateCalendarEvent
UpdateTransition(booking, service, outcome, at) ==
    IF ~service \/ booking.calendarEventId = NoEventId
    THEN Step("updateCalendarEvent",
              [booking EXCEPT !.calendarSyncStatus =
                   IF booking.calendarEventId # NoEventId THEN "failed" ELSE "disabled"],
              "none", NoEventId, "none", Resolved(TRUE, NoEventId))
    ELSE IF outcome = "ok"
    THEN Step("updateCalendarEvent",
              [booking EXCEPT !.calendarSyncStatus = "synced",
                              !.calendarLastSyncAt = at],
              "update", booking.calendarEventId, outcome, Resolved(TRUE, NoEventId))
    ELSE IF outcome = "fail"
    THEN Step("updateCalendarEvent",
              [booking EXCEPT !.calendarSyncStatus = "failed"],
              "update", booking.calendarEventId, outcome, Resolved(FALSE, NoEventId))
    ELSE Catch("updateCalendarEvent", booking, "update", booking.calendarEventId)

\* variant: a deleted event leaves calendarSyncStatus as it was
DeleteTransitionKeepsStatus(booking, service, outcome, at) ==
    IF ~service \/ booking.calendarEventId = NoEventId
    THEN Step("deleteCalendarEvent", booking, "none", NoEventId, "none", Resolved(TRUE, NoEventId))
    ELSE IF outcome = "ok"
    THEN Step("deleteCalendarEvent",
              [booking EXCEPT !.calendarEventId = NoEventId,
                              !.calendarLastSyncAt = at],
              "delete", booking.calendarEventId, outcome, Resolved(TRUE, NoEventId))
    ELSE Step("deleteCalendarEvent",
              [booking EXCEPT !.calendarSyncStatus = "failed"],
              "delete", booking.calendarEventId, outcome, Resolved(FALSE, NoEventId))
\* variant: a deleted event stays on the booking
DeleteTransitionKeepsId(booking, service, outcome, at) ==
    IF ~service \/ booking.calendarEventId = NoEventId
    THEN Step("deleteCalendarEvent", booking, "none", NoEventId, "none", Resolved(TRUE, NoEventId))
    ELSE IF outcome = "ok"
    THEN Step("deleteCalendarEvent",
              [booking EXCEPT !.calendarSyncStatus = "disabled",
                              !.calendarLastSyncAt = at],
              "delete", booking.calendarEventId, outcome, Resolved(TRUE, NoEventId))
    ELSE Step("deleteCalendarEvent",
              [booking EXCEPT !.calendarSyncStatus = "failed"],
              "delete", booking.calendarEventId, outcome, Resolved(FALSE, NoEventId))
\* deleteCalendarEvent
DeleteTransition(booking, service, outcome, at) ==
    IF ~service \/ booking.calendarEventId = NoEventId
    THEN Step("deleteCalendarEvent", booking, "none", NoEventId, "none", Resolved(TRUE, NoEventId))
    ELSE IF outcome = "ok"
    THEN Step("deleteCalendarEvent",
              [booking EXCEPT !.calendarEventId = NoEventId,
                              !.calendarSyncStatus = "disabled",
                              !.calendarLastSyncAt = at],
              "delete", booking.calendarEventId, outcome, Resolved(TRUE, NoEventId))
    ELSE IF outcome = "fail"
    THEN Step("deleteCalendarEvent",
              [booking EXCEPT !.calendarSyncStatus = "failed"],
              "delete", booking.calendarEventId, outcome, Resolved(FALSE, NoEventId))
    ELSE Catch("deleteCalendarEvent", booking, "delete", booking.calendarEventId)

\* variant: sync creates an event whether or not the booking holds one
SyncTransitionAlwaysCreates(booking, service, outcome, eventId, at) ==
    CreateTransition(booking, service, outcome, eventId, at)
\* syncBookingWithCalendar: { ...result, eventId: booking.calendarEventId }
\* after an update, the result of createCalendarEvent otherwise
SyncTransition(booking, service, outcome, eventId, at) ==
    IF booking.calendarEventId # NoEventId
    THEN LET u == UpdateTransition(booking, service, outcome, at)
         IN  [u EXCEPT !.ret.eventId = u.booking.calendarEventId]
    ELSE CreateTransition(booking, service, outcome, eventId, at)

\* what the integration gets from createBookingEvent, updateBookingEvent or
\* deleteBookingEvent: their catch turns a request without usable answer
\* into null or false
Seen(outcome) == IF outcome = "lost" THEN "fail" ELSE outcome

\* the promise of an integration call that awaits for ever
NeverSettles == [returned |-> "never", success |-> FALSE, eventId |-> NoEventId]

\* the transition as far as it gets: when the awaited calendar call hangs,
\* nothing after the await runs and the document is as it was
Awaited(booking, step, outcome) ==
    IF outcome = "hangs" /\ step.call # "none"
    THEN [step EXCEPT !.booking = booking, !.eventId = NoEventId,
                      !.outcome = "hangs", !.ret = NeverSettles]
    ELSE step

\* the calendar applied the request of the call
TakesEffect(step, outcome) == step.call # "none" /\ outcome \in {"ok", "lost"}

\* the events of the calendar created for document d
EventsOf(cal, d) == {ev \in cal : ev.doc = d}

\* the calendar gives a new event an id that no event and no document has
Fresh(cal, store, eventId) ==
    /\ \A ev \in cal : ev.id # eventId
    /\ \A d \in DOMAIN store : store[d].calendarEventId # eventId

\* the calendar can apply the request: it creates events under new ids and
\* updates or deletes only events it holds
Feasible(cal, store, booking, step, outcome, eventId) ==
    TakesEffect(step, outcome)
    => IF step.call = "create"
       THEN Fresh(cal, store, eventId)
       ELSE \E ev \in cal : ev.id = booking.calendarEventId

\* the calendar after the call
Effect(cal, d, booking, step, outcome, eventId) ==
    IF ~TakesEffect(step, outcome) THEN cal
    ELSE IF step.call = "create" THEN cal \cup {[id |-> eventId, doc |-> d]}
    ELSE IF step.call = "delete" THEN {ev \in cal : ev.id # booking.calendarEventId}
    ELSE cal

\* the entry of the trace for a transition on document d
Entry(d, step) ==
    [method |-> step.method, doc |-> d, call |-> step.call, eventId |-> step.eventId,
     outcome |-> step.outcome]

\* the last calendar create or delete that succeeded, after a transition
Effective(prior, step) ==
    IF step.outcome = "ok" /\ step.call \in {"create", "delete"} THEN step.call ELSE prior

\* one integration call on document d: CalendarServiceFactory.getInstance(),
\* the transition, and the result handed to the caller
Integrate(op, d, enabled, elapsed, step, outcome, eventId) ==
    /\ now + elapsed <= MaxClock
    /\ Configured(factory, enabled)
    /\ Feasible(calendar, docs, docs[d], step, outcome, eventId)
    /\ calendar' = Effect(calendar, d, docs[d], step, outcome, eventId)
    /\ factory' = GetInstance(factory, enabled)
    /\ docs' = [docs EXCEPT ![d] = step.booking]
    /\ now' = now + elapsed
    /\ trace' = <<Entry(d, step)>>
    /\ result' = [op |-> op, doc |-> d, returned |-> step.ret.returned,
                  success |-> step.ret.success, eventId |-> step.ret.eventId,
                  startedAt |-> now]
    /\ history' = [history EXCEPT ![d] = Effective(history[d], step)]
    /\ UNCHANGED bookingVars
    /\ UNCHANGED projectorVars
    /\ UNCHANGED clientVars

CreateCalendarEvent(d, enabled, outcome, eventId, elapsed) ==
    LET calendarService == GetInstance(factory, enabled).instance
        step == Awaited(docs[d],
                        CreateTransition(docs[d], calendarService, Seen(outcome), eventId, now + elapsed),
                        outcome)
    IN  /\ d \in DOMAIN docs
        /\ Integrate("createCalendarEvent", d, enabled, elapsed, step, outcome, eventId)

UpdateCalendarEvent(d, enabled, outcome, elapsed) ==
    LET calendarService == GetInstance(factory, enabled).instance
        step == Awaited(docs[d],
                        UpdateTransition(docs[d], calendarService, Seen(outcome), now + elapsed),
                        outcome)
    IN  /\ d \in DOMAIN docs
        /\ Integrate("updateCalendarEvent", d, enabled, elapsed, step, outcome, NoEventId)

DeleteCalendarEvent(d, enabled, outcome, elapsed) ==
    LET calendarService == GetInstance(factory, enabled).instance
        step == Awaited(docs[d],
                        DeleteTransition(docs[d], calendarService, Seen(outcome), now + elapsed),
                        outcome)
    IN  /\ d \in DOMAIN docs
        /\ Integrate("deleteCalendarEvent", d, enabled, elapsed, step, outcome, NoEventId)

SyncBookingWithCalendar(d, enabled, outcome, eventId, elapsed) ==
    LET calendarService == GetInstance(factory, enabled).instance
        step == Awaited(docs[d],
                        SyncTransition(docs[d], calendarService, Seen(outcome), eventId, now + elapsed),
                        outcome)
    IN  /\ d \in DOMAIN docs
        /\ Integrate("syncBookingWithCalendar", d, enabled, elapsed, step, outcome, eventId)

\* variant: disabled bookings are retried too
FailedBookingsAlsoDisabled(list, store) ==
    SelectSeq(list, LAMBDA d : store[d].calendarSyncStatus \in {"failed", "pending", "disabled"})
\* variant: only the failed bookings are retried
FailedBookingsOnlyFailed(list, store) ==
    SelectSeq(list, LAMBDA d : store[d].calendarSyncStatus = "failed")
\* bookings.filter(status === 'failed' || status === 'pending')
FailedBookings(list, store) ==
    SelectSeq(list, LAMBDA d : store[d].calendarSyncStatus \in {"failed", "pending"})

\* for (const booking of failedBookings) { try { await sync } catch { log } }
\* st is the state before the bookings still to do; the loop goes no
\* further than a sync that never settles
RECURSIVE RetryLoop(_, _, _, _, _, _)
RetryLoop(failedBookings, service, outcomes, eventIds, elapsed, st) ==
    IF failedBookings = <<>> \/ st.hung
    THEN st
    ELSE LET d == Head(failedBookings)
             at == st.now + elapsed[d]
             After(step) ==
                 [docs |-> [st.docs EXCEPT ![d] = step.booking],
                  now |-> at,
                  trace |-> Append(st.trace, Entry(d, step)),
                  history |-> [st.history EXCEPT ![d] = Effective(st.history[d], step)],
                  calendar |-> Effect(st.calendar, d, st.docs[d], step,
                                      outcomes[d], eventIds[d]),
                  feasible |-> st.feasible
                               /\ Feasible(st.calendar, st.docs, st.docs[d], step,
                                           outcomes[d], eventIds[d]),
                  hung |-> step.outcome = "hangs"]
         IN  CHOOSE end \in
                 {RetryLoop(Tail(failedBookings), service, outcomes, eventIds, elapsed, next) :
                      next \in {After(step) :
                                    step \in {Awaited(st.docs[d],
                                                      SyncTransition(st.docs[d], service,
                                                                     Seen(outcomes[d]),
                                                                     eventIds[d], at),
                                                      outcomes[d])}}} : TRUE

\* retryFailedSyncs(bookings): Promise<void>
RetryFailedSyncs(list, enabled, outcomes, eventIds, elapsed) ==
    LET failedBookings == FailedBookings(list, docs)
        \* getInstance() is first called by the first transition of the loop
        f == IF failedBookings = <<>> THEN factory ELSE GetInstance(factory, enabled)
    IN
    \E end \in {RetryLoop(failedBookings, f.instance, outcomes, eventIds, elapsed,
                          [docs |-> docs, now |-> now, trace |-> <<>>, history |-> history,
                           calendar |-> calendar, feasible |-> TRUE, hung |-> FALSE])} :
    /\ end.now <= MaxClock
    /\ Configured(factory, enabled)
    /\ end.feasible
    /\ calendar' = end.calendar
    /\ factory' = f
    /\ docs' = end.docs
    /\ now' = end.now
    /\ trace' = end.trace
    /\ result' = [NoResult EXCEPT !.op = "retryFailedSyncs",
                                  !.returned = IF end.hung THEN "never" ELSE "void",
                                  !.startedAt = now]
    /\ history' = end.history
    /\ UNCHANGED bookingVars
    /\ UNCHANGED projectorVars
    /\ UNCHANGED clientVars

\* CalendarServiceFactory.reset()
Reset ==
    /\ factory' = FactoryReset
    /\ trace' = <<>>
    /\ result' = [NoResult EXCEPT !.op = "reset", !.returned = "void", !.startedAt = now]
    /\ UNCHANGED <<docs, now, history, calendar>>
    /\ UNCHANGED bookingVars
    /\ UNCHANGED projectorVars
    /\ UNCHANGED clientVars

\* the documents in the order the caller lists them
AllDocs == <<1, 2>>

\* the calendar names every event it creates differently
EventIdsPerDoc == {ids \in [DocIds -> EventIds] : \A d1, d2 \in DocIds : ids[d1] = ids[d2] => d1 = d2}

SyncNext ==
    \/ \E d \in DocIds, enabled \in BOOLEAN, outcome \in Outcomes, eventId \in EventIds,
          elapsed \in Elapsed :
            CreateCalendarEvent(d, enabled, outcome, eventId, elapsed)
    \/ \E d \in DocIds, enabled \in BOOLEAN, outcome \in Outcomes, elapsed \in Elapsed :
            UpdateCalendarEvent(d, enabled, outcome, elapsed)
    \/ \E d \in DocIds, enabled \in BOOLEAN, outcome \in Outcomes, elapsed \in Elapsed :
            DeleteCalendarEvent(d, enabled, outcome, elapsed)
    \/ \E d \in DocIds, enabled \in BOOLEAN, outcome \in Outcomes, eventId \in EventIds,
          elapsed \in Elapsed :
            SyncBookingWithCalendar(d, enabled, outcome, eventId, elapsed)
    \/ \E enabled \in BOOLEAN, outcomes \in [DocIds -> Outcomes],
          eventIds \in EventIdsPerDoc, elapsed \in [DocIds -> Elapsed] :
            RetryFailedSyncs(AllDocs, enabled, outcomes, eventIds, elapsed)
    \/ Reset

\* the awaited calls take no time
NoDelay == [d \in DocIds |-> 0]

\* sync, delete and retry, the calendar calls ending in one of `ends`
SyncDeleteRetry(ends) ==
    \/ \E d \in DocIds, enabled \in BOOLEAN, outcome \in ends, eventId \in EventIds :
            SyncBookingWithCalendar(d, enabled, outcome, eventId, 0)
    \/ \E d \in DocIds, enabled \in BOOLEAN, outcome \in ends :
            DeleteCalendarEvent(d, enabled, outcome, 0)
    \/ \E enabled \in BOOLEAN, outcomes \in [DocIds -> ends],
          eventIds \in EventIdsPerDoc :
            RetryFailedSyncs(AllDocs, enabled, outcomes, eventIds, NoDelay)

\* over a network that loses answers
NetworkNext == SyncDeleteRetry(NetworkOutcomes)

\* over a network that answers every call
RetryNext == SyncDeleteRetry(Outcomes)

----------------------------------------------------------------------------
(* GoogleCalendarService.bookingToCalendarEvent                             *)
(*                                                                          *)
(* Representation.  A dateTime string "YYYY-MM-DDTHH:MM:00" is the tuple    *)
(* <<day, HH, MM, 0>>; an absent customerEmail is ""; populatedData with    *)
(* services carries their names, populatedData without is <<>>.  The        *)
(* description text, the time zone and the location are left out.           *)

\* a status the Booking schema does not list
UnlistedStatus == "pending"

\* variant: an initial booking is shown as confirmed
MapBookingStatusInitialConfirmed(bookingStatus) ==
    CASE bookingStatus \in {"confirmed", "in_progress", "completed", "initial"} -> "confirmed"
      [] bookingStatus \in {"cancelled", "no_show"} -> "cancelled"
      [] OTHER -> "tentative"
\* mapBookingStatusToCalendarStatus
MapBookingStatusToCalendarStatus(bookingStatus) ==
    CASE bookingStatus \in {"confirmed", "in_progress", "completed"} -> "confirmed"
      [] bookingStatus = "initial" -> "tentative"
      [] bookingStatus \in {"cancelled", "no_show"} -> "cancelled"
      [] OTHER -> "tentative"

\* serviceNames: the names of populatedData.services, else the count
ServiceNames(booking, populatedNames) ==
    IF populatedNames # <<>>
    THEN [names |-> populatedNames, count |-> 0]
    ELSE [names |-> <<>>, count |-> Len(booking.services)]

\* attendees: the customer first, then the technicians in order
Attendees(customerEmail, technicianEmails) ==
    (IF customerEmail # "" THEN <<[email |-> customerEmail, displayName |-> 0]>> ELSE <<>>)
    \o [k \in 1..Len(technicianEmails) |-> [email |-> technicianEmails[k], displayName |-> k]]

\* `${dateStr}T${HH}:${MM}:00`
DateTimeString(date, time) == <<date, time[1], time[2], 0>>

NoEventData ==
    [summary |-> [names |-> <<>>, count |-> 0], start |-> <<>>, end |-> <<>>,
     status |-> "", attendees |-> <<>>]

NoEventRequest ==
    [booking |-> [services |-> <<>>, appointmentDate |-> NoDate, startTime |-> NoTime,
                  endTime |-> NoTime, status |-> ""],
     customerEmail |-> "", technicianEmails |-> <<>>, populatedNames |-> <<>>]

CalendarEvent(booking, customerEmail, technicianEmails, populatedNames) ==
    [summary |-> ServiceNames(booking, populatedNames),
     start |-> DateTimeString(booking.appointmentDate, booking.startTime),
     end |-> DateTimeString(booking.appointmentDate, booking.endTime),
     status |-> MapBookingStatusToCalendarStatus(booking.status),
     attendees |-> Attendees(customerEmail, technicianEmails)]

BookingToCalendarEvent(booking, customerEmail, technicianEmails, populatedNames) ==
    /\ eventRequest' = [booking |-> booking, customerEmail |-> customerEmail,
                        technicianEmails |-> technicianEmails,
                        populatedNames |-> populatedNames]
    /\ eventData' = CalendarEvent(booking, customerEmail, technicianEmails, populatedNames)
    /\ UNCHANGED bookingVars
    /\ UNCHANGED syncVars
    /\ UNCHANGED clientVars

\* the bookings handed to the projector: one or two services, any status
ProjectedBookings ==
    {[services |-> sv, appointmentDate |-> 1, startTime |-> t[1], endTime |-> t[2],
      status |-> st] :
        sv \in {<<Svc("s60", "t1")>>, <<Svc("s30", "t1"), Svc("s30", "t2")>>},
        t \in {<<<<9, 0>>, <<10, 0>>>>, <<<<14, 30>>, <<15, 30>>>>},
        st \in BookingStatuses \cup {UnlistedStatus}}

ProjectorNext ==
    \E booking \in ProjectedBookings,
       customerEmail \in {"", "customer@example.com"},
       technicianEmails \in {<<>>, <<"tech1@hanasalon.com">>,
                             <<"tech1@hanasalon.com", "tech2@hanasalon.com">>},
       populatedNames \in {<<>>, <<"Manicure">>} :
        BookingToCalendarEvent(booking, customerEmail, technicianEmails, populatedNames)

----------------------------------------------------------------------------

Init ==
    /\ bookings = <<>>
    /\ request = NoRequest
    /\ response = NoResponse
    /\ storeQueries = 0
    /\ storeError = FALSE
    /\ docs = [d \in DocIds |-> NewBooking]
    /\ factory = FactoryReset
    /\ now = 1
    /\ trace = <<>>
    /\ result = NoResult
    /\ history = [d \in DocIds |-> "none"]
    /\ calendar = {}
    /\ eventRequest = NoEventRequest
    /\ eventData = NoEventData
    /\ clients = [c \in ClientIds |-> NewClient]

\* router.post('/:id/check-availability'), from a caller that is not followed
PostCheckAvailability(r, storeOk) ==
    /\ CheckTechnicianAvailability(r.technicianId, r.slot.date, r.slot.startTime,
                                   r.slot.duration, storeOk)
    /\ UNCHANGED clientVars

\* router.post('/'), from a caller that is not followed
PostBooking(r, storeOk) ==
    /\ CreateBooking(r.customerId, r.services, r.appointmentDate,
                     r.startTime, r.endTime, storeOk)
    /\ UNCHANGED clientVars

Next ==
    \/ \E r \in CheckOneRequests, ok \in BOOLEAN : PostCheckAvailability(r, ok)
    \/ \E r \in BatchRequests, ok \in BOOLEAN :
            BatchCheckTechnicianAvailability(r.technicianIds, r.slot.date,
                                             r.slot.startTime, r.slot.duration, ok)
    \/ \E r \in CreateRequests, ok \in BOOLEAN : PostBooking(r, ok)
    \/ \E id \in 1..MaxBookings, u \in UpdateRequests, ok \in BOOLEAN :
            UpdateBooking(id, u, ok)
    \/ \E id \in 1..MaxBookings, ok \in BOOLEAN : CancelBooking(id, ok)
    \/ \E id \in 1..MaxBookings, ok \in BOOLEAN : CompleteBooking(id, ok)

Spec == Init /\ [][Next]_vars

\* createBooking and updateBooking of the times and the duration
UpdateNext ==
    \/ \E r \in TimeCreateRequests, ok \in BOOLEAN : PostBooking(r, ok)
    \/ \E id \in 1..MaxBookings, u \in TimeUpdateRequests, ok \in BOOLEAN :
            UpdateBooking(id, u, ok)

SpecUpdate == Init /\ [][UpdateNext]_vars

\* two clients that each check a technician's slot and book it when the
\* answer is available
RaceNext ==
    \/ \E c \in ClientIds, startTime \in ClientStartTimes : ClientChoosesSlot(c, startTime)
    \/ \E c \in ClientIds, ok \in BOOLEAN : ClientChecks(c, ok)
    \/ \E c \in ClientIds, ok \in BOOLEAN : ClientBooks(c, ok)

SpecRace == Init /\ [][RaceNext]_vars

SpecSync == Init /\ [][SyncNext]_vars

SpecNetwork == Init /\ [][NetworkNext]_vars

\* a retry of all the documents in which every calendar call succeeds
RetrySucceeds ==
    \E eventIds \in EventIdsPerDoc :
        RetryFailedSyncs(AllDocs, TRUE, [d \in DocIds |-> "ok"], eventIds, NoDelay)

\* the same calls, with retryFailedSyncs invoked again and again and its
\* calendar calls succeeding in the end
SpecRetry == Init /\ [][RetryNext]_vars /\ WF_vars(RetrySucceeds)

SpecProjector == Init /\ [][ProjectorNext]_vars

----------------------------------------------------------------------------
(* Properties.  The answers of the handlers are compared with the bookings  *)
(* of the collection, read as half-open intervals of minutes of a day.      *)

BookingIds == 1..Len(bookings)

\* the booking lists the technician in its services
Lists(b, t) == \E k \in 1..Len(b.services) : b.services[k].technicianId = t

\* two half-open intervals of minutes share a minute
SharesMinute(s1, e1, s2, e2) == \E m \in s1..(e1 - 1) : s2 <= m /\ m < e2

RequestedStart == MinutesOfDay(request.startTime)
RequestedEnd == RequestedStart + request.duration.num

\* booking b, of technician t on the requested date, overlaps the requested interval
OverlapsRequest(b, t) ==
    /\ Lists(b, t)
    /\ b.appointmentDate = request.date
    /\ SharesMinute(RequestedStart, RequestedEnd,
                    MinutesOfDay(b.startTime), MinutesOfDay(b.endTime))

Answered(op) == response.op = op /\ response.code = 200

ConflictIds == {response.conflicts[k].bookingId : k \in 1..Len(response.conflicts)}

\* the statuses the availability queries select
Occupying(b) == b.status \in {"initial", "confirmed", "in_progress"}

NotCancelled(b) == b.status # "cancelled"

TimeOfMinute(m) == <<m \div 60, m % 60>>

\* the store without its i-th booking
Without(store, i) == [k \in 1..(Len(store) - 1) |-> IF k < i THEN store[k] ELSE store[k + 1]]

\* a cancelled booking of technician t occupying exactly the requested slot
CancelledTwin(t) ==
    [services |-> <<[serviceId |-> "s30", technicianId |-> t,
                     duration |-> request.duration.num]>>,
     appointmentDate |-> request.date,
     startTime |-> request.startTime,
     endTime |-> TimeOfMinute(RequestedEnd),
     status |-> "cancelled",
     totalDuration |-> request.duration.num,
     calendarEventId |-> "",
     calendarSyncStatus |-> "pending"]

\* the availability the single check computes for the last request over a store
AvailableOver(store) ==
    CheckOneAnswer(store, request.technicianId, request.date, request.startTime,
                   request.duration.num).available

\* the results the batch check computes for the last request over a store
ResultsOver(store) ==
    BatchAnswer(store, request.technicianIds.arr, request.date, request.startTime,
                request.duration.num).results

\* C2: a cancelled booking never produces a conflict: no conflict of the
\* single check is a cancelled booking, and the answer of either check is
\* the one it gives with any cancelled booking removed from the store and
\* with a cancelled booking of the identical slot added to it.
C2_CancelledNeverConflicts ==
    /\ Answered("checkOne") =>
          /\ \A i \in ConflictIds : bookings[i].status # "cancelled"
          /\ \A i \in BookingIds :
                bookings[i].status = "cancelled" =>
                    AvailableOver(Without(bookings, i)) = response.available
          /\ AvailableOver(Append(bookings, CancelledTwin(request.technicianId)))
                = response.available
    /\ Answered("batch") =>
          /\ \A i \in BookingIds :
                bookings[i].status = "cancelled" =>
                    ResultsOver(Without(bookings, i)) = response.results
          /\ \A k \in 1..Len(request.technicianIds.arr) :
                ResultsOver(Append(bookings, CancelledTwin(request.technicianIds.arr[k])))
                    = response.results

\* a cancelled 09:00-10:00 booking of t1, no other booking, and the batch
\* check of t1 for 09:30 / 30 minutes answered available
C2_Witness ==
    /\ Answered("batch")
    /\ request.technicianIds = Arr(<<"t1">>) /\ request.date = 1
    /\ request.startTime = <<9, 30>> /\ request.duration = Num(30)
    /\ Len(bookings) = 1
    /\ bookings[1].status = "cancelled"
    /\ OverlapsRequest(bookings[1], "t1")
    /\ response.results[1].available

\* C3: the batch check over N technician ids issues exactly one store query
\* and returns N results, the i-th carrying the i-th input id.
C3_BatchOneQueryNResults ==
    Answered("batch") =>
        /\ storeQueries = 1
        /\ Len(response.results) = Len(request.technicianIds.arr)
        /\ \A k \in 1..Len(response.results) :
              response.results[k].technicianId = request.technicianIds.arr[k]

\* the batch check of <<t2, t1>> answered, with two results
C3_Witness ==
    /\ Answered("batch")
    /\ request.technicianIds = Arr(<<"t2", "t1">>)
    /\ Len(response.results) = 2
    /\ response.results[1].technicianId = "t2"
    /\ Len(bookings) > 0

Touches(b) ==
    \/ MinutesOfDay(b.endTime) = RequestedStart
    \/ MinutesOfDay(b.startTime) = RequestedEnd

\* C5: the overlap test is half-open: the single check never lists as a
\* conflict a booking that ends at the requested start or starts at the
\* requested end, and the batch check answers available for a technician
\* all of whose selected bookings on the date do so.
C5_HalfOpen ==
    /\ Answered("checkOne") =>
          \A k \in 1..Len(response.conflicts) : ~Touches(response.conflicts[k])
    /\ Answered("batch") =>
          \A k \in 1..Len(response.results) :
              (\A i \in BookingIds :
                  (/\ Occupying(bookings[i])
                   /\ Lists(bookings[i], request.technicianIds.arr[k])
                   /\ bookings[i].appointmentDate = request.date) => Touches(bookings[i]))
              => response.results[k].available

\* t1 holds one booking, ending exactly at the requested start, and the
\* single check answers available
C5_Witness ==
    /\ Answered("checkOne")
    /\ request.technicianId = "t1"
    /\ request.duration.num > 0
    /\ Len(bookings) = 1
    /\ Occupying(bookings[1]) /\ Lists(bookings[1], "t1")
    /\ bookings[1].appointmentDate = request.date
    /\ MinutesOfDay(bookings[1].endTime) = RequestedStart
    /\ response.available

\* the requested interval stored as a booking of technician t
RequestAsBooking(t) ==
    [services |-> <<[serviceId |-> "s30", technicianId |-> t,
                     duration |-> request.duration.num]>>,
     appointmentDate |-> request.date,
     startTime |-> request.startTime,
     endTime |-> TimeOfMinute(RequestedEnd),
     status |-> "initial",
     totalDuration |-> request.duration.num,
     calendarEventId |-> "",
     calendarSyncStatus |-> "pending"]

\* the single check with the roles exchanged: booking b as the request,
\* the last request as the only booking of the store
SwappedAvailable(b, t) ==
    CheckOneAnswer(<<RequestAsBooking(t)>>, t, b.appointmentDate, b.startTime,
                   MinutesOfDay(b.endTime) - MinutesOfDay(b.startTime)).available

\* C6: the overlap test is symmetric: a selected booking of the technician
\* on the date conflicts with the request exactly when, the booking taken as
\* the request and the request as the existing booking, the check reports a
\* conflict.
C6_OverlapSymmetric ==
    Answered("checkOne") =>
        \A i \in BookingIds :
            (/\ Occupying(bookings[i])
             /\ Lists(bookings[i], request.technicianId)
             /\ bookings[i].appointmentDate = request.date)
            => ((i \in ConflictIds) = ~SwappedAvailable(bookings[i], request.technicianId))

\* a conflict between a request and a longer booking that starts before it
C6_Witness ==
    /\ Answered("checkOne")
    /\ \E i \in ConflictIds :
          /\ MinutesOfDay(bookings[i].startTime) < RequestedStart
          /\ ~SwappedAvailable(bookings[i], request.technicianId)

\* C7: a batch request whose technicianIds is missing, not an array or empty
\* is answered 400 with no result, and no store query is issued.
C7_BadTechnicianIdsRejected ==
    (response.op = "batch"
     /\ (request.technicianIds.kind # "array" \/ request.technicianIds.arr = <<>>))
    => /\ response.code = 400
       /\ storeQueries = 0
       /\ response.results = <<>>

\* the batch request with an empty technicianIds array, rejected, the store
\* holding a booking
C7_Witness ==
    /\ response.op = "batch"
    /\ request.technicianIds = Arr(<<>>)
    /\ response.code = 400
    /\ Len(bookings) > 0

\* C8 (as stated): both availability checks answer 400, without a store
\* query, a request whose duration is zero or negative.
C8_AsStated ==
    (response.op \in {"checkOne", "batch"}
     /\ request.duration.kind = "number" /\ request.duration.num <= 0)
    => /\ response.code = 400
       /\ storeQueries = 0

\* C9: when the store query of an availability check fails, the answer is
\* the 500 error, with no availability in it.
C9_StoreFailureIsError ==
    (response.op \in {"checkOne", "batch"} /\ storeError)
    => /\ response.code = 500
       /\ ~response.available
       /\ response.results = <<>>

\* the query of a batch check fails while no booking is in the way of the
\* request
C9_Witness ==
    /\ response.op = "batch"
    /\ storeError
    /\ response.code = 500
    /\ request.technicianIds = Arr(<<"t1", "t2">>)
    /\ \A k \in 1..2 : ResultsOver(bookings)[k].available

----------------------------------------------------------------------------
(* Properties of the calendar sync transitions (specification SpecSync).    *)
(* A step of SpecSync is one integration call; trace' lists the             *)
(* transitions it went through and result' is what it returned, so the      *)
(* unprimed docs are the documents before the call and docs' after it.      *)

\* the call that just ran was `op` on document d
Ran(op, d) == result'.op = op /\ result'.doc = d

\* the call that just ran on d issued exactly one calendar call, `call`,
\* which ended as `outcome`
Issued(d, call, outcome) ==
    /\ Len(trace') = 1
    /\ trace'[1].doc = d
    /\ trace'[1].call = call
    /\ trace'[1].outcome = outcome

\* C11: with the calendar configured, a createCalendarEvent or
\* syncBookingWithCalendar on a booking without calendarEventId whose create
\* call succeeds leaves the booking synced, holding the event id the
\* calendar returned (also handed to the caller), with calendarLastSyncAt
\* not earlier than the start of the call.
C11_CreateSucceeds ==
    [][\A d \in DocIds :
          (/\ Ran("createCalendarEvent", d) \/ Ran("syncBookingWithCalendar", d)
           /\ docs[d].calendarEventId = NoEventId
           /\ Issued(d, "create", "ok"))
          => /\ factory'.instance
             /\ docs'[d].calendarSyncStatus = "synced"
             /\ docs'[d].calendarEventId = trace'[1].eventId
             /\ docs'[d].calendarEventId \in EventIds
             /\ docs'[d].calendarLastSyncAt >= result'.startedAt
             /\ docs'[d].calendarLastSyncAt # NoSyncAt
             /\ result'.returned = "value" /\ result'.success
             /\ result'.eventId = docs'[d].calendarEventId]_vars

\* a sync created the event of a booking one tick after the call started
C11_Witness ==
    /\ result.op = "syncBookingWithCalendar"
    /\ Len(trace) = 1 /\ trace[1].call = "create" /\ trace[1].outcome = "ok"
    /\ docs[result.doc].calendarSyncStatus = "synced"
    /\ docs[result.doc].calendarEventId = trace[1].eventId
    /\ docs[result.doc].calendarLastSyncAt = result.startedAt + 1

\* C12: whenever a calendar call (create, update or delete) was issued and
\* failed (a failure value or an exception), the booking it was issued for
\* is failed afterwards, whatever its status was, and the transition
\* reports the failure.
C12_FailureLandsFailed ==
    \A k \in 1..Len(trace) :
        (trace[k].call \in {"create", "update", "delete"}
         /\ trace[k].outcome \in {"fail", "throws"})
        => /\ docs[trace[k].doc].calendarSyncStatus = "failed"
           /\ result.returned = "value" => ~result.success

\* a delete call threw for a booking that holds an event
C12_Witness ==
    /\ result.op = "deleteCalendarEvent"
    /\ Len(trace) = 1 /\ trace[1].call = "delete" /\ trace[1].outcome = "throws"
    /\ docs[result.doc].calendarSyncStatus = "failed"
    /\ docs[result.doc].calendarEventId # NoEventId

\* C13 (as stated): when the calendar is unconfigured at call time, every
\* create, update or delete transition leaves the booking disabled and
\* reports success.
C13_AsStated ==
    \A k \in 1..Len(trace) :
        (factory.initialized /\ ~factory.instance)
        => /\ docs[trace[k].doc].calendarSyncStatus = "disabled"
           /\ result.returned = "value" => result.success

\* C14 (as stated): with the calendar configured, an update requested for a
\* booking without calendarEventId issues a create call, and when that call
\* succeeds the booking ends synced with a calendarEventId.
C14_AsStated ==
    [][\A d \in DocIds :
          (/\ Ran("updateCalendarEvent", d)
           /\ factory'.instance
           /\ docs[d].calendarEventId = NoEventId)
          => /\ Len(trace') = 1 /\ trace'[1].call = "create"
             /\ trace'[1].outcome = "ok"
                   => /\ docs'[d].calendarSyncStatus = "synced"
                      /\ docs'[d].calendarEventId # NoEventId]_vars

\* C15: with the calendar configured, deleteCalendarEvent on a booking that
\* holds a calendarEventId issues the delete call for that event; when the
\* call succeeds the event id is cleared and the booking is disabled, when
\* it fails the booking is failed and keeps its event id.
C15_DeleteOutcome ==
    [][\A d \in DocIds :
          (/\ Ran("deleteCalendarEvent", d)
           /\ factory'.instance
           /\ docs[d].calendarEventId # NoEventId)
          => /\ Len(trace') = 1 /\ trace'[1].doc = d /\ trace'[1].call = "delete"
             /\ trace'[1].eventId = docs[d].calendarEventId
             /\ IF trace'[1].outcome = "ok"
                THEN /\ docs'[d].calendarEventId = NoEventId
                     /\ docs'[d].calendarSyncStatus = "disabled"
                     /\ result'.success
                ELSE /\ docs'[d].calendarEventId = docs[d].calendarEventId
                     /\ docs'[d].calendarSyncStatus = "failed"
                     /\ ~result'.success]_vars

\* a delete call succeeded: the booking lost its event id and is disabled
C15_Witness ==
    /\ result.op = "deleteCalendarEvent"
    /\ Len(trace) = 1 /\ trace[1].call = "delete" /\ trace[1].outcome = "ok"
    /\ trace[1].eventId \in EventIds
    /\ docs[result.doc].calendarEventId = NoEventId
    /\ docs[result.doc].calendarSyncStatus = "disabled"

\* C16: a syncBookingWithCalendar that follows at once a
\* syncBookingWithCalendar on the same booking whose calendar call succeeded
\* issues an update for the event id the booking holds, never a create; the
\* booking keeps that event id, which is also the one returned, and is
\* synced when the update succeeds.
C16_SyncIdempotent ==
    [][\A d \in DocIds :
          (/\ result.op = "syncBookingWithCalendar" /\ result.doc = d
           /\ Len(trace) = 1 /\ trace[1].outcome = "ok"
           /\ Ran("syncBookingWithCalendar", d))
          => /\ Len(trace') = 1 /\ trace'[1].call = "update"
             /\ trace'[1].eventId = result.eventId
             /\ docs'[d].calendarEventId = result.eventId
             /\ result'.eventId = result.eventId
             /\ result.eventId \in EventIds
             /\ trace'[1].outcome = "ok" => docs'[d].calendarSyncStatus = "synced"]_vars

\* a sync updated the event of a booking that the last successful calendar
\* call before it had created
C16_Witness ==
    /\ result.op = "syncBookingWithCalendar"
    /\ Len(trace) = 1 /\ trace[1].call = "update" /\ trace[1].outcome = "ok"
    /\ history[result.doc] = "create"
    /\ docs[result.doc].calendarEventId = trace[1].eventId
    /\ docs[result.doc].calendarSyncStatus = "synced"

\* the bookings of the list that are pending or failed
Selected(store) == {d \in DocIds : store[d].calendarSyncStatus \in {"pending", "failed"}}

\* C17: retryFailedSyncs runs the create-or-update transition exactly once
\* for each booking that was pending or failed, in the order of the list,
\* whatever the outcome of the other retries; it leaves the other bookings
\* alone and returns normally.
C17_RetryEachSelected ==
    [][result'.op = "retryFailedSyncs"
       => /\ {trace'[k].doc : k \in 1..Len(trace')} = Selected(docs)
          /\ Len(trace') = Cardinality(Selected(docs))
          /\ \A k \in 1..Len(trace') :
                trace'[k].method = IF docs[trace'[k].doc].calendarEventId # NoEventId
                                   THEN "updateCalendarEvent"
                                   ELSE "createCalendarEvent"
          /\ \A d \in DocIds \ Selected(docs) : docs'[d] = docs[d]
          /\ result'.returned = "void"]_vars

\* the first retry of a batch threw and the second created its event
C17_Witness ==
    /\ result.op = "retryFailedSyncs"
    /\ Len(trace) = 2
    /\ trace[1].outcome = "throws"
    /\ trace[2].call = "create" /\ trace[2].outcome = "ok"
    /\ docs[trace[1].doc].calendarSyncStatus = "failed"
    /\ docs[trace[2].doc].calendarSyncStatus = "synced"

\* C18: a booking holds a calendarEventId exactly when, of the calendar
\* create and delete calls that succeeded for it, the last one is a create.
C18_EventIdIffCreated ==
    \A d \in DocIds : docs[d].calendarEventId # NoEventId <=> history[d] = "create"

\* one booking's event was created, updated without success and then
\* deleted, while the other booking still holds the event created for it
C18_Witness ==
    \E d1, d2 \in DocIds :
        /\ history[d1] = "delete" /\ docs[d1].calendarEventId = NoEventId
        /\ history[d2] = "create" /\ docs[d2].calendarEventId \in EventIds
        /\ docs[d2].calendarSyncStatus = "failed"

\* C19: no integration call ends in an exception: each one returns, and a
\* calendar call that threw shows only as calendarSyncStatus failed and a
\* result that reports no success.
C19_NoExceptionEscapes ==
    /\ result.returned # "exception"
    /\ \A k \in 1..Len(trace) :
          trace[k].outcome = "throws"
          => /\ docs[trace[k].doc].calendarSyncStatus = "failed"
             /\ result.returned \in {"value", "void"}

\* a create call threw inside createCalendarEvent, which returned a result
C19_Witness ==
    /\ result.op = "createCalendarEvent"
    /\ Len(trace) = 1 /\ trace[1].call = "create" /\ trace[1].outcome = "throws"
    /\ result.returned = "value" /\ ~result.success
    /\ docs[result.doc].calendarSyncStatus = "failed"

\* C20 (as stated): a successful createBooking has been followed by a sync
\* attempt whose outcome is on the booking's calendar fields, and a
\* successful cancelBooking of a booking that held a calendarEventId has
\* issued a calendar delete call.
C20_AsStated ==
    /\ (response.op = "create" /\ response.code = 201)
       => /\ trace # <<>>
          /\ bookings[response.bookingId].calendarSyncStatus
                \in {"synced", "failed", "disabled"}
    /\ (response.op = "cancel" /\ response.code = 200
        /\ bookings[response.bookingId].calendarSyncStatus = "synced")
       => \E k \in 1..Len(trace) : trace[k].call = "delete"

----------------------------------------------------------------------------
(* Properties of the projector (specification SpecProjector).               *)

\* C21: the calendar status of a projected booking is confirmed for the
\* booking statuses confirmed, in_progress and completed, cancelled for
\* cancelled and no_show, and tentative for every other status, initial
\* included.
C21_StatusMapping ==
    eventData # NoEventData
    => eventData.status =
         IF eventRequest.booking.status \in {"confirmed", "in_progress", "completed"}
         THEN "confirmed"
         ELSE IF eventRequest.booking.status \in {"cancelled", "no_show"}
         THEN "cancelled"
         ELSE "tentative"

\* a booking of a status the schema does not list was projected as tentative
C21_Witness ==
    /\ eventRequest.booking.status = UnlistedStatus
    /\ eventData.status = "tentative"
    /\ Len(eventData.attendees) = 3

----------------------------------------------------------------------------
(* Further properties of the calendar sync transitions (SpecSync).          *)

\* C28: a booking that is synced holds a calendarEventId.
C28_SyncedHasEventId ==
    \A d \in DocIds :
        docs[d].calendarSyncStatus = "synced" => docs[d].calendarEventId \in EventIds

\* one booking is synced with its event while the other one, whose event
\* was deleted, holds none and is not synced
C28_Witness ==
    \E d1, d2 \in DocIds :
        /\ docs[d1].calendarSyncStatus = "synced" /\ docs[d1].calendarEventId \in EventIds
        /\ history[d2] = "delete" /\ docs[d2].calendarEventId = NoEventId
        /\ docs[d2].calendarSyncStatus # "synced"

\* C29: a createCalendarEvent, updateCalendarEvent or deleteCalendarEvent
\* whose calendar call failed changes calendarSyncStatus only, and a
\* deleteCalendarEvent on a booking without calendarEventId issues no
\* calendar call and changes nothing on the booking.
C29_FailureFrame ==
    [][\A d \in DocIds :
          /\ (/\ \/ Ran("createCalendarEvent", d)
                  \/ Ran("updateCalendarEvent", d)
                  \/ Ran("deleteCalendarEvent", d)
               /\ Len(trace') = 1
               /\ trace'[1].call # "none"
               /\ trace'[1].outcome \in {"fail", "throws"})
             => docs'[d] = [docs[d] EXCEPT !.calendarSyncStatus = "failed"]
          /\ (Ran("deleteCalendarEvent", d) /\ docs[d].calendarEventId = NoEventId)
             => /\ Len(trace') = 1 /\ trace'[1].call = "none"
                /\ docs'[d] = docs[d]]_vars

\* an update call failed a tick after the booking's last stamp, which it
\* left in place
C29_Witness ==
    /\ result.op = "updateCalendarEvent"
    /\ Len(trace) = 1 /\ trace[1].call = "update" /\ trace[1].outcome = "fail"
    /\ docs[result.doc].calendarSyncStatus = "failed"
    /\ docs[result.doc].calendarEventId \in EventIds
    /\ docs[result.doc].calendarLastSyncAt = 1 /\ now = 2

\* C30: retryFailedSyncs issues no calendar call for a booking that is
\* synced or disabled and leaves all its fields as they were; a disabled
\* booking stays disabled.
C30_RetrySkipsSettled ==
    [][result'.op = "retryFailedSyncs"
       => \A d \in DocIds :
            docs[d].calendarSyncStatus \in {"synced", "disabled"}
            => /\ docs'[d] = docs[d]
               /\ \A k \in 1..Len(trace') : trace'[k].doc # d]_vars

\* with the calendar configured, a retry created the event of one booking
\* and passed over the other one, which is disabled
C30_Witness ==
    /\ result.op = "retryFailedSyncs"
    /\ factory.instance
    /\ Len(trace) = 1 /\ trace[1].call = "create" /\ trace[1].outcome = "ok"
    /\ \E d \in DocIds : d # trace[1].doc /\ docs[d].calendarSyncStatus = "disabled"

----------------------------------------------------------------------------
(* Properties over a network that loses answers (specification             *)
(* SpecNetwork: sync, delete and retry only).                               *)

\* C22 (as stated): once a calendar call was issued for a booking, the call
\* has resolved and the booking is synced, failed or disabled, never still
\* pending.
C22_AsStated ==
    \A k \in 1..Len(trace) :
        trace[k].call \in {"create", "update", "delete"}
        => /\ trace[k].outcome \in {"ok", "fail", "throws"}
           /\ docs[trace[k].doc].calendarSyncStatus \in {"synced", "failed", "disabled"}

\* C27 (as stated): the external calendar holds at most one live event per
\* booking.
C27_AsStated ==
    \A d \in DocIds : Cardinality(EventsOf(calendar, d)) <= 1

\* a deleteCalendarEvent on document d has just failed: d is failed and
\* keeps its event id
DeleteFailed(d) ==
    /\ result.op = "deleteCalendarEvent" /\ result.doc = d
    /\ Len(trace) = 1 /\ trace[1].call = "delete"
    /\ trace[1].outcome \in {"fail", "throws"}
    /\ docs[d].calendarSyncStatus = "failed"
    /\ docs[d].calendarEventId \in EventIds

\* every calendar call of the last operation succeeded
CallsSucceed ==
    \A k \in 1..Len(trace) : trace[k].call # "none" => trace[k].outcome = "ok"

\* C26 (as stated): after a delete that failed, with retryFailedSyncs run
\* again and again and the calendar calls succeeding from some point on,
\* the booking comes to hold no calendarEventId and the calendar no live
\* event for it.
C26_AsStated ==
    <>[]CallsSucceed
    => \A d \in DocIds :
           DeleteFailed(d)
           ~> (docs[d].calendarEventId = NoEventId /\ EventsOf(calendar, d) = {})

----------------------------------------------------------------------------
(* Properties of the stored times (specification SpecUpdate: createBooking  *)
(* and updateBooking).                                                       *)

----------------------------------------------------------------------------
(* Properties of the check-then-write sequence (specification SpecRace).    *)

====
